---------------------------- MODULE Spec2Model ----------------------------
(***************************************************************************)
(* Model of the crawl-and-transfer engine of ftp_downloader.py: the        *)
(* scanner threads (scanner_thread, _scan_and_queue_files_ftputil), the    *)
(* transfer workers (DownloadWorker.run), the status callback              *)
(* (update_file_status, with auto-retry), the retry commands, the          *)
(* progress monitor (update_progress) and stop_download.                   *)
(*                                                                         *)
(* A remote path is the sequence of its segments: <<>> is "/",             *)
(* <<"A","f2">> is "/A/f2".  A task is the tuple <<remote_path,            *)
(* local_path>> the code puts on download_queue; the poison pill (None)    *)
(* is the empty tuple.                                                     *)
(***************************************************************************)
EXTENDS Integers, Sequences, FiniteSets, TLC

\* ------------------------------------------------------------------------
\* Bounds of the model
\* ------------------------------------------------------------------------
NumWorkers == 2         \* threads_var of the modelled session
NumScanners == 2        \* scanners_var of the modelled session
MaxFaults == 1           \* injected failures (connect, listing, transfer) in one run
MaxRetryOne == 2        \* uses of the "Retry Download" context-menu command

MaxSessions == 2        \* uses of "Start Download" in one run
MaxChunks == 4          \* chunks of the file whose stream is followed
MaxDelay == 5           \* tenths of a second that one chunk can take

\* `completion_checks_passed >= 5`: the clean polls asked for before the
\* final verification
QuorumTicks == 5

\* `current_time - last_update_time >= 0.5`, in tenths of a second
UpdateInterval == 5

\* The threads of all sessions: session n starts NumWorkers DownloadWorker
\* threads (worker_id 0 ..) and NumScanners scanner threads (scanner_id 1 ..)
Sessions == 1 .. MaxSessions
Workers == 0 .. (MaxSessions * NumWorkers - 1)
Scanners == 1 .. (MaxSessions * NumScanners)
WSession(w) == (w \div NumWorkers) + 1
SSession(s) == ((s - 1) \div NumScanners) + 1
WorkerId(w) == w % NumWorkers

\* ------------------------------------------------------------------------
\* Paths, the remote tree and the local sink
\* ------------------------------------------------------------------------
Root == <<>>
RemoteBase == Root       \* remote_path_entry.insert(0, "/")
LocalDir == <<"dl">>

\* Remote trees: a function from each directory to its listing, a sequence
\* of [name, kind] entries in the order listdir returns them.
SmallTree ==
    ( <<>>    :> << [name |-> "f1", kind |-> "file"], [name |-> "A", kind |-> "dir"] >> ) @@
    ( <<"A">> :> << [name |-> "f2", kind |-> "file"] >> )

\* SmallTree on a server whose listing of the root names the directory A twice
RepeatTree ==
    ( <<>>    :> << [name |-> "f1", kind |-> "file"], [name |-> "A", kind |-> "dir"],
                    [name |-> "A", kind |-> "dir"] >> ) @@
    ( <<"A">> :> << [name |-> "f2", kind |-> "file"] >> )

ScenarioTree ==
    ( <<>>    :> << [name |-> "A", kind |-> "dir"], [name |-> "B", kind |-> "dir"] >> ) @@
    ( <<"A">> :> << [name |-> "a1", kind |-> "file"], [name |-> "a2", kind |-> "file"],
                    [name |-> "a3", kind |-> "file"] >> ) @@
    ( <<"B">> :> << [name |-> "b1", kind |-> "file"], [name |-> "b2", kind |-> "file"] >> )

\* remote_path = f"{current_path.rstrip('/')}/{name}"
JoinPath(current_path, name) == Append(current_path, name)

\* rel_path = remote_path[1:]; local_path = os.path.join(local_dir, rel_path)
LocalPath(remote_path) == LocalDir \o remote_path

Task(remote_path) == << remote_path, LocalPath(remote_path) >>
Pill == <<>>

RECURSIVE SelectKind(_, _, _)
SelectKind(listing, current_path, kind) ==
    IF listing = <<>> THEN <<>>
    ELSE LET rest == SelectKind(Tail(listing), current_path, kind)
         IN  IF Head(listing).kind = kind
             THEN << JoinPath(current_path, Head(listing).name) >> \o rest
             ELSE rest

RECURSIVE AppendAll(_, _)
AppendAll(q, items) ==
    IF items = <<>> THEN q ELSE AppendAll(Append(q, Head(items)), Tail(items))

RECURSIVE Pills(_)
Pills(n) == IF n = 0 THEN <<>> ELSE << Pill >> \o Pills(n - 1)

Range(s) == { s[i] : i \in 1 .. Len(s) }

\* A dict with insertion-ordered keys (the values, local paths, are a
\* function of the key): `del d[k]` and `d[k] = v`
DictDel(d, k) == SelectSeq(d, LAMBDA x : x # k)
DictSet(d, k) == IF k \in Range(d) THEN d ELSE Append(d, k)

\* ------------------------------------------------------------------------
\* Error messages and their classification
\* ------------------------------------------------------------------------
Msg200Type == <<"2","0","0"," ","T","Y","P","E"," ","i","s"," ","n","o","w"," ","8","-","b","i","t"," ","b","i","n","a","r","y">>
Msg200Lower == <<"2","0","0"," ","T","y","p","e"," ","s","e","t"," ","t","o"," ","I">>
Msg550 == <<"5","5","0"," ","N","o"," ","s","u","c","h"," ","f","i","l","e">>
Msg150 == <<"1","5","0"," ","O","p","e","n","i","n","g"," ","d","a","t","a">>
MsgTimeout == <<"t","i","m","e","d"," ","o","u","t">>

PfxNotFound == <<"F","i","l","e"," ","n","o","t"," ","f","o","u","n","d",":"," ">>
PfxTimeout == <<"C","o","n","n","e","c","t","i","o","n"," ","t","i","m","e","o","u","t"," ","o","r"," ","i","n","t","e","r","r","u","p","t","e","d",":"," ">>
PfxFtp == <<"F","T","P"," ","e","r","r","o","r",":"," ">>

Lowers == <<"a","b","c","d","e","f","g","h","i","j","k","l","m","n","o","p","q","r","s","t","u","v","w","x","y","z">>
Uppers == <<"A","B","C","D","E","F","G","H","I","J","K","L","M","N","O","P","Q","R","S","T","U","V","W","X","Y","Z">>

S550 == <<"5","5","0">>
SNotFound == <<"n","o","t"," ","f","o","u","n","d">>
SNoSuch == <<"N","o"," ","s","u","c","h"," ","f","i","l","e">>
S150 == <<"1","5","0">>
S200 == <<"2","0","0">>
STYPE == <<"T","Y","P","E">>
Sbinary == <<"b","i","n","a","r","y">>

\* The errors a transfer can end with (last_error of _download_file).
ErrText == << Msg200Type, Msg200Lower, Msg550 >>
ErrIds == 1 .. Len(ErrText)

UpperChar(c) ==
    IF \E i \in 1 .. Len(Lowers) : Lowers[i] = c
    THEN Uppers[CHOOSE i \in 1 .. Len(Lowers) : Lowers[i] = c]
    ELSE c

LowerChar(c) ==
    IF \E i \in 1 .. Len(Uppers) : Uppers[i] = c
    THEN Lowers[CHOOSE i \in 1 .. Len(Uppers) : Uppers[i] = c]
    ELSE c

StrUpper(s) == [ i \in 1 .. Len(s) |-> UpperChar(s[i]) ]
StrLower(s) == [ i \in 1 .. Len(s) |-> LowerChar(s[i]) ]

\* Python's `needle in s` on strings
Contains(s, needle) ==
    \E i \in 0 .. (Len(s) - Len(needle)) :
        \A j \in 1 .. Len(needle) : s[i + j] = needle[j]

\* _download_file: the exception raised when no path format succeeded
DownloadFileError(error_msg) ==
    IF Contains(error_msg, S550) \/ Contains(StrLower(error_msg), SNotFound)
       \/ Contains(error_msg, SNoSuch)
    THEN PfxNotFound \o error_msg
    ELSE IF Contains(error_msg, S150)
         THEN PfxTimeout \o error_msg
         ELSE PfxFtp \o error_msg

\* The test with the two case foldings exchanged
IsDisguisedSuccessSwapped(error_msg) ==
    Contains(error_msg, S200)
    /\ ( Contains(StrLower(error_msg), STYPE) \/ Contains(StrUpper(error_msg), Sbinary) )

\* DownloadWorker.run: "is this actually a success message treated as error"
IsDisguisedSuccess(error_msg) ==
    Contains(error_msg, S200)
    /\ ( Contains(StrUpper(error_msg), STYPE) \/ Contains(StrLower(error_msg), Sbinary) )

\* The errors that run() classifies as a success: error_msg = str(e) of the
\* exception _download_file raised
DisguisedErrs == { e \in ErrIds : IsDisguisedSuccess(DownloadFileError(ErrText[e])) }
Disguised(e) == e \in DisguisedErrs


\* ------------------------------------------------------------------------
\* State
\* ------------------------------------------------------------------------
VARIABLES
    total, completed, success, failed, errors,      \* self.stats[...]
    downloaded_paths, downloading_paths,            \* self.stats[...] sets
    download_queue,                                 \* self.download_queue
    dir_queue,                                      \* dir_queue of each session
    session,                                        \* sessions started so far
    file_list,                                      \* self.file_list
    file_to_item,                                   \* keys of self.file_to_item
    failed_downloads, failed_downloads_dict,        \* failed tally (list, dict keys)
    scanned_dirs, scanner_done, scanner_count,
    is_downloading,
    retry_failed_var,                               \* auto-retry checkbox
    local_files,                                    \* local paths with non-zero size
    remote_fs,                                      \* the remote tree
    remote_base,                                    \* remote_path_entry
    w_pc, w_task, w_running, w_status,              \* DownloadWorker threads
    s_pc, s_cur, s_files, s_dirs,                   \* scanner threads
    progress_chains,                                \* pending update_progress callbacks
    completion_checks_passed,                       \* consecutive clean checks counted by the program
    remote_left,                                    \* chunks not yet read from the open remote file
    file_size,                                      \* its size in chunks as getsize gave it, 0 for None
    downloaded, last_update_time, current_time,     \* locals of _download_file
    bytes_downloaded,                               \* self.stats['bytes_downloaded'], in chunks
    status_calls,                                   \* status_callback invocations of this transfer
    last_status_time,                               \* time of the last one, start_time before the first
    done_count,                                     \* completions reported to the user
    quiet_ticks,                                    \* consecutive quiet polls so far
    stop_count,                                     \* stop requests so far
    stop_inflight,                                  \* downloading_paths at the last stop
    list_failed,                                    \* (scanner, directory) of the listings that failed
    mtime_failed,                                   \* paths whose modification time was not copied
    nfault, nretry             \* injected events so far

counters == << total, completed, success, failed, errors >>
registry == << downloaded_paths, downloading_paths >>
gui      == << file_to_item, failed_downloads, failed_downloads_dict >>
scanst   == << scanned_dirs, scanner_done, scanner_count >>
wvars    == << w_pc, w_task, w_running, w_status >>
svars    == << s_pc, s_cur, s_files, s_dirs >>
env      == << local_files, remote_fs, remote_base, retry_failed_var >>
chunkst  == << remote_left, file_size, downloaded, last_update_time, current_time,
              bytes_downloaded, status_calls, last_status_time >>
hist     == << done_count, quiet_ticks, stop_count, stop_inflight, list_failed, mtime_failed,
              nfault, nretry >>

vars == << counters, registry, download_queue, dir_queue, session, file_list, gui, scanst,
           is_downloading, env, wvars, svars, progress_chains, completion_checks_passed, chunkst, hist >>

Unbound == << "<unbound>" >>     \* current_path before the first dequeue
NoTask == << <<>>, <<>> >>

\* No thread exists before the first start; the threads that were started
NoThreads == [ t \in {} |-> "" ]
LiveWorkers == DOMAIN w_pc
LiveScanners == DOMAIN s_pc

\* The per-thread state f with the threads `new` added in state `init`
Started(f, new, init) == [ t \in (DOMAIN f) \cup new |-> IF t \in new THEN init ELSE f[t] ]

\* os.path.exists(local_path) and os.path.getsize(local_path) > 0
LocalExists(local_path) == local_path \in local_files

\* State after FTPDownloaderGUI.__init__ and the user's entries, for a given
\* remote tree, local directory content, auto-retry setting and remote path
InitProgram(tree, pre, auto, base) ==
    /\ total = 0 /\ completed = 0 /\ success = 0 /\ failed = 0 /\ errors = <<>>
    /\ downloaded_paths = {} /\ downloading_paths = {}
    /\ download_queue = <<>>
    /\ dir_queue = [n \in Sessions |-> <<>>]
    /\ session = 0
    /\ file_list = <<>>
    /\ file_to_item = {}
    /\ failed_downloads = {} /\ failed_downloads_dict = <<>>
    /\ scanned_dirs = {} /\ scanner_done = FALSE /\ scanner_count = 0
    /\ is_downloading = FALSE
    /\ retry_failed_var = auto
    /\ local_files = pre
    /\ remote_fs = tree
    /\ remote_base = base
    /\ w_pc = NoThreads /\ w_task = NoThreads /\ w_running = NoThreads
    /\ w_status = NoThreads
    /\ s_pc = NoThreads /\ s_cur = NoThreads /\ s_files = NoThreads /\ s_dirs = NoThreads
    /\ progress_chains = 0
    /\ completion_checks_passed = 0
    /\ done_count = 0 /\ quiet_ticks = 0 /\ stop_count = 0 /\ stop_inflight = {}
    /\ list_failed = {} /\ mtime_failed = {}
    /\ nfault = 0 /\ nretry = 0

\* _download_file before `while True`, for a remote file of n chunks whose
\* size getsize gave (known) or not: downloaded = 0, start_time =
\* last_update_time = 0
OpenedStream(n, known) ==
    /\ remote_left = n
    /\ file_size = IF known THEN n ELSE 0
    /\ downloaded = 0 /\ last_update_time = 0 /\ current_time = 0
    /\ bytes_downloaded = 0
    /\ status_calls = 0 /\ last_status_time = 0

\* ... while no stream is followed chunk by chunk
InitAt(tree, pre, auto, base) == InitProgram(tree, pre, auto, base) /\ OpenedStream(0, FALSE)

\* ... with the remote path left at its default
InitWith(tree, pre, auto) == InitAt(tree, pre, auto, RemoteBase)

Init ==
    \E pre \in SUBSET { LocalPath(<<"A", "f2">>) }, auto \in BOOLEAN :
        InitWith(SmallTree, pre, auto)

\* ------------------------------------------------------------------------
\* start_download / _start_parallel_downloads
\* ------------------------------------------------------------------------
\* Session n is started: the counters and the scanner tracking are reset
\* (the path sets, file_list and download_queue are kept), dir_queue is
\* created with the remote base, the workers and scanners of the session
\* are started and update_progress is called twice
StartDownload(n) ==
    /\ ~is_downloading
    /\ session = n - 1
    /\ session' = n
    /\ total' = 0 /\ completed' = 0 /\ success' = 0 /\ failed' = 0 /\ errors' = <<>>
    /\ UNCHANGED registry
    /\ failed_downloads' = {} /\ failed_downloads_dict' = <<>>
    /\ UNCHANGED file_to_item
    /\ scanned_dirs' = {} /\ scanner_done' = FALSE /\ scanner_count' = 0
    /\ quiet_ticks' = 0
    /\ dir_queue' = [dir_queue EXCEPT ![n] = << remote_base >>]
    /\ is_downloading' = TRUE
    /\ LET workers == { w \in Workers : WSession(w) = n }
           scanners == { s \in Scanners : SSession(s) = n }
       IN  /\ w_pc' = Started(w_pc, workers, "connect")
           /\ w_task' = Started(w_task, workers, NoTask)
           /\ w_running' = Started(w_running, workers, TRUE)
           /\ w_status' = Started(w_status, workers, "")
           /\ s_pc' = Started(s_pc, scanners, "start")
           /\ s_cur' = Started(s_cur, scanners, Unbound)
           /\ s_files' = Started(s_files, scanners, <<>>)
           /\ s_dirs' = Started(s_dirs, scanners, <<>>)
    /\ progress_chains' = progress_chains + 2
    /\ completion_checks_passed' = 0
    /\ bytes_downloaded' = 0
    /\ UNCHANGED << remote_left, file_size, downloaded, last_update_time, current_time,
                    status_calls, last_status_time >>
    /\ list_failed' = {}
    /\ UNCHANGED << download_queue, file_list, env, done_count, stop_count, stop_inflight,
                    mtime_failed, nfault, nretry >>

\* ------------------------------------------------------------------------
\* DownloadWorker.run
\* ------------------------------------------------------------------------
WorkerErrPrefix(w) == << "Worker", ToString(WorkerId(w)), "connection failed" >>

\* A loop head that does not look at self.running
LoopHeadIgnoresStop(w) == "loop"

\* Where the thread is after `while self.running:` is evaluated
LoopHead(w) == IF w_running[w] THEN "loop" ELSE "exited"

\* ftputil.FTPHost(...) succeeds; the thread reaches the loop
WorkerConnect(w) ==
    /\ w_pc[w] = "connect"
    /\ w_pc' = [w_pc EXCEPT ![w] = LoopHead(w)]
    /\ UNCHANGED << counters, registry, download_queue, dir_queue, session, file_list, gui,
                    scanst, is_downloading, env, w_task, w_running, w_status, svars,
                    progress_chains, completion_checks_passed, chunkst, hist >>

\* WorkerConnectFail, but the thread takes the head of the download queue
\* with it when it returns
WorkerConnectFailTakesTask(w) ==
    /\ w_pc[w] = "connect"
    /\ nfault < MaxFaults
    /\ nfault' = nfault + 1
    /\ errors' = Append(errors, << WorkerErrPrefix(w), 0 >>)
    /\ download_queue' = IF download_queue = <<>> THEN download_queue
                         ELSE Tail(download_queue)
    /\ w_pc' = [w_pc EXCEPT ![w] = "exited"]
    /\ UNCHANGED << total, completed, success, failed, registry,
                    dir_queue, session, file_list, gui, scanst, is_downloading, env, w_task,
                    w_running, w_status, svars, progress_chains, completion_checks_passed, chunkst, done_count,
                    quiet_ticks, stop_count, stop_inflight, list_failed, mtime_failed, nretry >>

\* ftputil.FTPHost(...) raises: one error is recorded and the thread returns
WorkerConnectFail(w) ==
    /\ w_pc[w] = "connect"
    /\ nfault < MaxFaults
    /\ nfault' = nfault + 1
    /\ errors' = Append(errors, << WorkerErrPrefix(w), 0 >>)
    /\ w_pc' = [w_pc EXCEPT ![w] = "exited"]
    /\ UNCHANGED << total, completed, success, failed, registry, download_queue,
                    dir_queue, session, file_list, gui, scanst, is_downloading, env, w_task,
                    w_running, w_status, svars, progress_chains, completion_checks_passed, chunkst, done_count,
                    quiet_ticks, stop_count, stop_inflight, list_failed, mtime_failed, nretry >>

\* task = self.download_queue.get(timeout=1) returns (pc "loop": the thread
\* is inside get, `self.running` was true when it entered).  The pill ends
\* the loop.  For a task, "Check if file already exists locally": an
\* existing file is counted as a success unless the path is already in
\* downloaded_paths.
WorkerGet(w) ==
    /\ w_pc[w] = "loop"
    /\ download_queue # <<>>
    /\ download_queue' = Tail(download_queue)
    /\ IF Head(download_queue) = Pill
       THEN /\ w_pc' = [w_pc EXCEPT ![w] = "exited"]
            /\ UNCHANGED << w_task, w_status, downloaded_paths, completed, success >>
       ELSE LET remote_path == Head(download_queue)[1]
                local_path == Head(download_queue)[2]
            IN  /\ w_task' = [w_task EXCEPT ![w] = Head(download_queue)]
                /\ IF LocalExists(local_path)
                   THEN /\ IF remote_path \notin downloaded_paths
                           THEN /\ downloaded_paths' =
                                       downloaded_paths \cup { remote_path }
                                /\ completed' = completed + 1
                                /\ success' = success + 1
                           ELSE UNCHANGED << downloaded_paths, completed, success >>
                        /\ w_pc' = [w_pc EXCEPT ![w] = "notify"]
                        /\ w_status' = [w_status EXCEPT ![w] = "Completed"]
                   ELSE /\ w_pc' = [w_pc EXCEPT ![w] = "claim"]
                        /\ UNCHANGED << downloaded_paths, completed, success,
                                        w_status >>
    /\ UNCHANGED << total, failed, errors, downloading_paths, dir_queue, session, file_list,
                    gui, scanst, is_downloading, env, w_running, svars,
                    progress_chains, completion_checks_passed, chunkst, hist >>

\* get raises queue.Empty and `while self.running:` is false: the thread ends
\* (with self.running true the thread is back in get: no change of state)
WorkerTimeout(w) ==
    /\ w_pc[w] = "loop"
    /\ download_queue = <<>>
    /\ ~w_running[w]
    /\ w_pc' = [w_pc EXCEPT ![w] = "exited"]
    /\ UNCHANGED << counters, registry, download_queue, dir_queue, session, file_list, gui,
                    scanst, is_downloading, env, w_task, w_running, w_status, svars,
                    progress_chains, completion_checks_passed, chunkst, hist >>

\* "Skip if already downloaded or currently downloading", else mark as
\* downloading, all under stats['lock']
WorkerClaim(w) ==
    /\ w_pc[w] = "claim"
    /\ LET remote_path == w_task[w][1]
       IN  IF remote_path \in downloaded_paths \/ remote_path \in downloading_paths
           THEN /\ w_pc' = [w_pc EXCEPT ![w] = LoopHead(w)]
                /\ w_task' = [w_task EXCEPT ![w] = NoTask]
                /\ UNCHANGED downloading_paths
           ELSE /\ downloading_paths' = downloading_paths \cup { remote_path }
                /\ w_pc' = [w_pc EXCEPT ![w] = "transfer"]
                /\ UNCHANGED w_task
    /\ UNCHANGED << counters, downloaded_paths, download_queue, dir_queue, session, file_list,
                    gui, scanst, is_downloading, env, w_running, w_status, svars,
                    progress_chains, completion_checks_passed, chunkst, hist >>

\* _download_file: the local file is opened and the first chunk is written
WorkerStream(w) ==
    /\ w_pc[w] = "transfer"
    /\ local_files' = local_files \cup { w_task[w][2] }
    /\ w_pc' = [w_pc EXCEPT ![w] = "streaming"]
    /\ UNCHANGED << counters, registry, download_queue, dir_queue, session, file_list, gui,
                    scanst, is_downloading, remote_fs, remote_base, retry_failed_var, w_task,
                    w_running, w_status, svars, progress_chains, completion_checks_passed, chunkst, hist >>

\* "Update stats - mark as downloaded and remove from downloading"
MarkSucceeded(w) ==
    /\ downloading_paths' = downloading_paths \ { w_task[w][1] }
    /\ downloaded_paths' = downloaded_paths \cup { w_task[w][1] }
    /\ completed' = completed + 1
    /\ success' = success + 1
    /\ w_status' = [w_status EXCEPT ![w] = "Completed"]
    /\ UNCHANGED << total, failed, errors >>

\* A failure that leaves the path in downloading_paths
MarkFailedKeepDownloading(w, e) ==
    /\ completed' = completed + 1
    /\ failed' = failed + 1
    /\ errors' = Append(errors, << w_task[w][1], e >>)
    /\ w_status' = [w_status EXCEPT ![w] = "Failed"]
    /\ UNCHANGED << total, success, downloaded_paths, downloading_paths >>

\* "Real error - remove from downloading but don't mark as downloaded"
MarkFailed(w, e) ==
    /\ downloading_paths' = downloading_paths \ { w_task[w][1] }
    /\ completed' = completed + 1
    /\ failed' = failed + 1
    /\ errors' = Append(errors, << w_task[w][1], e >>)
    /\ w_status' = [w_status EXCEPT ![w] = "Failed"]
    /\ UNCHANGED << total, success, downloaded_paths >>

\* _download_file returned: the whole stream was written
WorkerSucceed(w) ==
    /\ w_pc[w] = "streaming"
    /\ MarkSucceeded(w)
    /\ w_pc' = [w_pc EXCEPT ![w] = "notify"]
    /\ UNCHANGED << download_queue, dir_queue, session, file_list, gui, scanst, is_downloading,
                    env, w_task, w_running, svars, progress_chains, completion_checks_passed, chunkst, hist >>

\* One iteration of `while True` in _download_file that reads a chunk: the
\* chunk is written and counted, and dt tenths of a second after the chunk
\* before it the status is reported, with the speed when the interval has
\* gone by and without it otherwise; no report when the size is not known
ReadChunk(dt) ==
    /\ remote_left > 0
    /\ remote_left' = remote_left - 1
    /\ downloaded' = downloaded + 1
    /\ current_time' = current_time + dt
    /\ bytes_downloaded' = bytes_downloaded + 1
    /\ IF current_time' - last_update_time >= UpdateInterval
       THEN /\ last_update_time' = current_time'
            /\ IF file_size # 0
               THEN status_calls' = status_calls + 1 /\ last_status_time' = current_time'
               ELSE UNCHANGED << status_calls, last_status_time >>
       ELSE /\ UNCHANGED last_update_time
            /\ IF file_size # 0
               THEN status_calls' = status_calls + 1 /\ last_status_time' = current_time'
               ELSE UNCHANGED << status_calls, last_status_time >>
    /\ UNCHANGED << counters, registry, download_queue, dir_queue, session, file_list, gui, scanst,
                    is_downloading, env, wvars, svars, progress_chains, completion_checks_passed,
                    file_size, hist >>

\* WorkerSucceedNoMtime, but the exception of getmtime or os.utime fails the
\* transfer
WorkerSucceedNoMtimeRaises(w) ==
    /\ w_pc[w] = "streaming"
    /\ MarkFailed(w, 3)
    /\ w_pc' = [w_pc EXCEPT ![w] = "notify"]
    /\ mtime_failed' = mtime_failed \cup { w_task[w][1] }
    /\ UNCHANGED << download_queue, dir_queue, session, file_list, gui, scanst, is_downloading,
                    env, w_task, w_running, svars, progress_chains, completion_checks_passed, chunkst,
                    done_count, quiet_ticks, stop_count, stop_inflight, list_failed, nfault, nretry >>

\* _download_file returned: the whole stream was written, then getmtime or
\* os.utime raised and the exception was passed over
WorkerSucceedNoMtime(w) ==
    /\ w_pc[w] = "streaming"
    /\ MarkSucceeded(w)
    /\ w_pc' = [w_pc EXCEPT ![w] = "notify"]
    /\ mtime_failed' = mtime_failed \cup { w_task[w][1] }
    /\ UNCHANGED << download_queue, dir_queue, session, file_list, gui, scanst, is_downloading,
                    env, w_task, w_running, svars, progress_chains, completion_checks_passed, chunkst,
                    done_count, quiet_ticks, stop_count, stop_inflight, list_failed, nfault, nretry >>

\* WorkerRaise, but a real error ends the thread
WorkerRaiseAborts(w, e) ==
    /\ w_pc[w] \in { "transfer", "streaming" }
    /\ IF Disguised(e)
       THEN /\ MarkSucceeded(w)
            /\ w_pc' = [w_pc EXCEPT ![w] = "notify"]
            /\ UNCHANGED nfault
       ELSE /\ nfault < MaxFaults
            /\ nfault' = nfault + 1
            /\ MarkFailed(w, e)
            /\ w_pc' = [w_pc EXCEPT ![w] = "exited"]
    /\ UNCHANGED << download_queue, dir_queue, session, file_list, gui, scanst, is_downloading,
                    env, w_task, w_running, svars, progress_chains, completion_checks_passed, chunkst, done_count,
                    quiet_ticks, stop_count, stop_inflight, list_failed, mtime_failed, nretry >>

\* _download_file (or makedirs) raised with the error e: `except Exception`
WorkerRaise(w, e) ==
    /\ w_pc[w] \in { "transfer", "streaming" }
    /\ IF Disguised(e)
       THEN /\ MarkSucceeded(w)
            /\ UNCHANGED nfault
       ELSE /\ nfault < MaxFaults
            /\ nfault' = nfault + 1
            /\ MarkFailed(w, e)
    /\ w_pc' = [w_pc EXCEPT ![w] = "notify"]
    /\ UNCHANGED << download_queue, dir_queue, session, file_list, gui, scanst, is_downloading,
                    env, w_task, w_running, svars, progress_chains, completion_checks_passed, chunkst, done_count,
                    quiet_ticks, stop_count, stop_inflight, list_failed, mtime_failed, nretry >>

\* update_file_status(remote_path, status), called by the worker thread as
\* its status_callback, followed by download_queue.task_done().  A final
\* status removes the item from the tree view (_remove_from_treeview, 100 ms
\* later, taken here with the update).  With the auto-retry box ticked a
\* failed path is put back on download_queue and shown as pending again.
WorkerNotify(w) ==
    /\ w_pc[w] = "notify"
    /\ LET remote_path == w_task[w][1]
           autoRetry == /\ w_status[w] = "Failed"
                        /\ remote_path \notin failed_downloads
                        /\ retry_failed_var
                        /\ is_downloading
       IN  IF w_status[w] = "Completed"
           THEN /\ failed_downloads' = failed_downloads \ { remote_path }
                /\ failed_downloads_dict' = DictDel(failed_downloads_dict, remote_path)
                /\ file_to_item' = file_to_item \ { remote_path }
                /\ UNCHANGED << download_queue, downloaded_paths >>
           ELSE IF autoRetry
           THEN /\ download_queue' = Append(download_queue, Task(remote_path))
                /\ failed_downloads' = failed_downloads \ { remote_path }
                /\ failed_downloads_dict' = DictDel(failed_downloads_dict, remote_path)
                /\ file_to_item' = IF remote_path \in file_to_item
                                   THEN file_to_item \ { remote_path }
                                   ELSE file_to_item \cup { remote_path }
                /\ downloaded_paths' = downloaded_paths \ { remote_path }
           ELSE /\ IF remote_path \notin failed_downloads
                   THEN /\ failed_downloads' = failed_downloads \cup { remote_path }
                        /\ failed_downloads_dict' =
                               DictSet(failed_downloads_dict, remote_path)
                   ELSE UNCHANGED << failed_downloads, failed_downloads_dict >>
                /\ file_to_item' = file_to_item \ { remote_path }
                /\ UNCHANGED << download_queue, downloaded_paths >>
    /\ w_pc' = [w_pc EXCEPT ![w] = LoopHead(w)]
    /\ w_task' = [w_task EXCEPT ![w] = NoTask]
    /\ w_status' = [w_status EXCEPT ![w] = ""]
    /\ UNCHANGED << counters, downloading_paths, dir_queue, session, file_list, scanst,
                    is_downloading, env, w_running, svars, progress_chains, completion_checks_passed, chunkst, hist >>

\* ------------------------------------------------------------------------
\* scanner_thread and _scan_and_queue_files_ftputil
\* ------------------------------------------------------------------------
\* The `except Exception` handler of scanner_thread, and the normal exit:
\* decrement scanner_count; at zero set scanner_done and put the pills.
ScannerExit(s) ==
    /\ scanner_count' = scanner_count - 1
    /\ IF scanner_count - 1 = 0
       THEN /\ scanner_done' = TRUE
            /\ download_queue' = download_queue \o Pills(NumWorkers)
       ELSE UNCHANGED << scanner_done, download_queue >>
    /\ s_pc' = [s_pc EXCEPT ![s] = "exited"]

\* scan_host = ftputil.FTPHost(...) succeeds; scanner_count += 1
ScanConnect(s) ==
    /\ s_pc[s] = "start"
    /\ scanner_count' = scanner_count + 1
    /\ s_pc' = [s_pc EXCEPT ![s] = "loop"]
    /\ UNCHANGED << counters, registry, download_queue, dir_queue, session, file_list, gui,
                    scanned_dirs, scanner_done, is_downloading, env, wvars, s_cur,
                    s_files, s_dirs, progress_chains, completion_checks_passed, chunkst, hist >>

\* scan_host = ftputil.FTPHost(...) raises: the handler runs
ScanConnectFail(s) ==
    /\ s_pc[s] = "start"
    /\ nfault < MaxFaults
    /\ nfault' = nfault + 1
    /\ ScannerExit(s)
    /\ UNCHANGED << counters, registry, dir_queue, session, file_list, gui, scanned_dirs,
                    is_downloading, env, wvars, s_cur, s_files, s_dirs,
                    progress_chains, completion_checks_passed, chunkst, done_count, quiet_ticks, stop_count, stop_inflight, list_failed, mtime_failed, nretry >>

\* ScanDir without the test of scanned_dirs
ScanDirUnchecked(s, current_path, ok) ==
    /\ scanned_dirs' = scanned_dirs \cup { current_path }
    /\ IF ok /\ current_path \in DOMAIN remote_fs
       THEN /\ s_files' = [s_files EXCEPT ![s] =
                              SelectKind(remote_fs[current_path], current_path, "file")]
            /\ s_dirs' = [s_dirs EXCEPT ![s] =
                              SelectKind(remote_fs[current_path], current_path, "dir")]
            /\ s_pc' = [s_pc EXCEPT ![s] = "files"]
       ELSE /\ s_pc' = [s_pc EXCEPT ![s] = "loop"]
            /\ UNCHANGED << s_files, s_dirs >>

\* ScanDir, but a failed chdir or listdir gives up every directory of the
\* tree instead of the one it was asked for
ScanDirAbandonAll(s, current_path, ok) ==
    IF current_path \in scanned_dirs
    THEN /\ s_pc' = [s_pc EXCEPT ![s] = "loop"]
         /\ UNCHANGED << scanned_dirs, s_files, s_dirs >>
    ELSE IF ok /\ current_path \in DOMAIN remote_fs
    THEN /\ scanned_dirs' = scanned_dirs \cup { current_path }
         /\ s_files' = [s_files EXCEPT ![s] =
                           SelectKind(remote_fs[current_path], current_path, "file")]
         /\ s_dirs' = [s_dirs EXCEPT ![s] =
                           SelectKind(remote_fs[current_path], current_path, "dir")]
         /\ s_pc' = [s_pc EXCEPT ![s] = "files"]
    ELSE /\ scanned_dirs' = scanned_dirs \cup DOMAIN remote_fs
         /\ s_pc' = [s_pc EXCEPT ![s] = "loop"]
         /\ UNCHANGED << s_files, s_dirs >>

\* _scan_and_queue_files_ftputil(scan_host, current_path, ...), first part:
\* the scanned_dirs check under scanned_dirs_lock, chdir and listdir.
\* ok = FALSE: chdir or listdir raised, the function returns.
ScanDir(s, current_path, ok) ==
    IF current_path \in scanned_dirs
    THEN /\ s_pc' = [s_pc EXCEPT ![s] = "loop"]
         /\ UNCHANGED << scanned_dirs, s_files, s_dirs >>
    ELSE /\ scanned_dirs' = scanned_dirs \cup { current_path }
         /\ IF ok /\ current_path \in DOMAIN remote_fs
            THEN /\ s_files' = [s_files EXCEPT ![s] =
                                   SelectKind(remote_fs[current_path], current_path, "file")]
                 /\ s_dirs' = [s_dirs EXCEPT ![s] =
                                   SelectKind(remote_fs[current_path], current_path, "dir")]
                 /\ s_pc' = [s_pc EXCEPT ![s] = "files"]
            ELSE /\ s_pc' = [s_pc EXCEPT ![s] = "loop"]
                 /\ UNCHANGED << s_files, s_dirs >>

\* current_path = dir_queue.get(timeout=0.5) returns a directory, which is
\* scanned
ScanGet(s, ok) ==
    /\ s_pc[s] = "loop"
    /\ dir_queue[SSession(s)] # <<>>
    /\ ok \/ nfault < MaxFaults
    /\ nfault' = IF ok THEN nfault ELSE nfault + 1
    /\ s_cur' = [s_cur EXCEPT ![s] = Head(dir_queue[SSession(s)])]
    /\ dir_queue' = [dir_queue EXCEPT ![SSession(s)] = Tail(@)]
    /\ ScanDir(s, Head(dir_queue[SSession(s)]), ok)
    /\ list_failed' = IF ~ok /\ Head(dir_queue[SSession(s)]) \notin scanned_dirs
                      THEN list_failed \cup { << s, Head(dir_queue[SSession(s)]) >> }
                      ELSE list_failed
    /\ UNCHANGED << counters, registry, download_queue, session, file_list, gui, scanner_done,
                    scanner_count, is_downloading, env, wvars, progress_chains, completion_checks_passed, chunkst,
                    done_count, quiet_ticks, stop_count, stop_inflight, mtime_failed, nretry >>

\* dir_queue.get(timeout=0.5) raises queue.Empty
ScanTimeout(s) ==
    /\ s_pc[s] = "loop"
    /\ dir_queue[SSession(s)] = <<>>
    /\ s_pc' = [s_pc EXCEPT ![s] = "empty"]
    /\ UNCHANGED << counters, registry, download_queue, dir_queue, session, file_list, gui,
                    scanst, is_downloading, env, wvars, s_cur, s_files, s_dirs,
                    progress_chains, completion_checks_passed, chunkst, hist >>

\* `except queue.Empty:` under scanner_count_lock: break, continue, or (the
\* queue is no longer empty) fall through to the scan with the current_path
\* of an earlier iteration; an unbound current_path raises into the handler
ScanEmptyCheck(s) ==
    /\ s_pc[s] = "empty"
    /\ IF dir_queue[SSession(s)] = <<>> /\ scanner_count <= 1
       THEN /\ s_pc' = [s_pc EXCEPT ![s] = "finish"]
            /\ UNCHANGED << scanst, download_queue, s_files, s_dirs >>
       ELSE IF dir_queue[SSession(s)] = <<>>
       THEN /\ s_pc' = [s_pc EXCEPT ![s] = "loop"]
            /\ UNCHANGED << scanst, download_queue, s_files, s_dirs >>
       ELSE IF s_cur[s] = Unbound
       THEN /\ ScannerExit(s)
            /\ UNCHANGED << scanned_dirs, s_files, s_dirs >>
       ELSE /\ ScanDir(s, s_cur[s], TRUE)
            /\ UNCHANGED << scanner_count, scanner_done, download_queue >>
    /\ UNCHANGED << counters, registry, dir_queue, session, file_list, gui, is_downloading,
                    env, wvars, s_cur, progress_chains, completion_checks_passed, chunkst, hist >>

\* After the loop: the remaining files are handed to the tree view
\* (_batch_add_files_to_treeview), the connection is closed, scanner_count
\* is decremented
ScanFinish(s) ==
    /\ s_pc[s] = "finish"
    /\ file_to_item' = file_to_item \cup Range(file_list)
    /\ ScannerExit(s)
    /\ UNCHANGED << counters, registry, dir_queue, session, file_list,
                    failed_downloads, failed_downloads_dict, scanned_dirs,
                    is_downloading, env, wvars, s_cur, s_files, s_dirs,
                    progress_chains, completion_checks_passed, chunkst, hist >>

\* "Queue files first": the checks made for the next file of the listing
\* (downloaded / downloading, file_list, local existence), and after the last
\* file the sub-directories are put on dir_queue
ScanFileCheck(s) ==
    /\ s_pc[s] = "files"
    /\ IF s_files[s] = <<>>
       THEN /\ dir_queue' = [dir_queue EXCEPT ![SSession(s)] = AppendAll(@, s_dirs[s])]
            /\ s_dirs' = [s_dirs EXCEPT ![s] = <<>>]
            /\ s_pc' = [s_pc EXCEPT ![s] = "loop"]
            /\ UNCHANGED << s_files, downloaded_paths >>
       ELSE LET remote_path == Head(s_files[s])
            IN  /\ UNCHANGED << dir_queue, s_dirs >>
                /\ IF \/ remote_path \in downloaded_paths
                      \/ remote_path \in downloading_paths
                      \/ remote_path \in Range(file_list)
                   THEN /\ s_files' = [s_files EXCEPT ![s] = Tail(s_files[s])]
                        /\ UNCHANGED << s_pc, downloaded_paths >>
                   ELSE IF LocalExists(LocalPath(remote_path))
                   THEN /\ downloaded_paths' = downloaded_paths \cup { remote_path }
                        /\ s_files' = [s_files EXCEPT ![s] = Tail(s_files[s])]
                        /\ UNCHANGED s_pc
                   ELSE /\ s_pc' = [s_pc EXCEPT ![s] = "put"]
                        /\ UNCHANGED << s_files, downloaded_paths >>
    /\ UNCHANGED << counters, downloading_paths, download_queue, session, file_list, gui,
                    scanst, is_downloading, env, wvars, s_cur, progress_chains, completion_checks_passed, chunkst, hist >>

\* self.download_queue.put((remote_path, local_path)) and file_list.append
ScanFilePut(s) ==
    /\ s_pc[s] = "put"
    /\ download_queue' = Append(download_queue, Task(Head(s_files[s])))
    /\ file_list' = Append(file_list, Head(s_files[s]))
    /\ s_pc' = [s_pc EXCEPT ![s] = "total"]
    /\ UNCHANGED << counters, registry, dir_queue, session, gui, scanst, is_downloading, env,
                    wvars, s_cur, s_files, s_dirs, progress_chains, completion_checks_passed, chunkst, hist >>

\* "Increment total count when file is discovered"
ScanFileTotal(s) ==
    /\ s_pc[s] = "total"
    /\ total' = total + 1
    /\ s_files' = [s_files EXCEPT ![s] = Tail(s_files[s])]
    /\ s_pc' = [s_pc EXCEPT ![s] = "files"]
    /\ UNCHANGED << completed, success, failed, errors, registry, download_queue,
                    dir_queue, session, file_list, gui, scanst, is_downloading, env, wvars,
                    s_cur, s_dirs, progress_chains, completion_checks_passed, chunkst, hist >>

\* ------------------------------------------------------------------------
\* Handlers of the GUI thread
\* ------------------------------------------------------------------------
\* What the completion check of the first update_progress definition looks
\* at (is_complete, without its all_done conjunct on the worker threads):
\* scanning finished, queue empty, nothing downloading, total > 0 and every
\* file accounted for
IsQuiet ==
    /\ scanner_done
    /\ download_queue = <<>>
    /\ downloading_paths = {}
    /\ total > 0
    /\ completed >= total

\* A poll that does not look at is_downloading before it reads the counters
UpdateProgressUnguarded ==
    /\ progress_chains > 0
    /\ quiet_ticks' = IF ~IsQuiet THEN 0
                      ELSE IF quiet_ticks < QuorumTicks THEN quiet_ticks + 1
                      ELSE quiet_ticks
    /\ IF completed >= total /\ total > 0
       THEN /\ is_downloading' = FALSE
            /\ done_count' = done_count + 1
            /\ progress_chains' = progress_chains - 1
       ELSE UNCHANGED << is_downloading, done_count, progress_chains >>
    /\ UNCHANGED << counters, registry, download_queue, dir_queue, session, file_list, gui,
                    scanst, env, wvars, svars, completion_checks_passed, chunkst, stop_count, stop_inflight,
                    list_failed, mtime_failed, nfault, nretry >>

\* A poll that asks for completed > total before it finishes
UpdateProgressStrict ==
    /\ progress_chains > 0
    /\ IF ~is_downloading
       THEN /\ progress_chains' = progress_chains - 1
            /\ UNCHANGED << is_downloading, done_count, quiet_ticks >>
       ELSE /\ quiet_ticks' = IF ~IsQuiet THEN 0
                              ELSE IF quiet_ticks < QuorumTicks THEN quiet_ticks + 1
                              ELSE quiet_ticks
            /\ IF completed > total /\ total > 0
               THEN /\ is_downloading' = FALSE
                    /\ done_count' = done_count + 1
                    /\ progress_chains' = progress_chains - 1
               ELSE UNCHANGED << is_downloading, done_count, progress_chains >>
    /\ UNCHANGED << counters, registry, download_queue, dir_queue, session, file_list, gui,
                    scanst, env, wvars, svars, completion_checks_passed, chunkst, stop_count, stop_inflight,
                    list_failed, mtime_failed, nfault, nretry >>

\* update_progress, as bound in the class (the later of the two definitions
\* of that name): finish as soon as completed >= total > 0, else reschedule.
\* quiet_ticks records, for the polls made while downloading, how many in a
\* row found IsQuiet (counted up to QuorumTicks).
UpdateProgress ==
    /\ progress_chains > 0
    /\ IF ~is_downloading
       THEN /\ progress_chains' = progress_chains - 1
            /\ UNCHANGED << is_downloading, done_count, quiet_ticks >>
       ELSE /\ quiet_ticks' = IF ~IsQuiet THEN 0
                              ELSE IF quiet_ticks < QuorumTicks THEN quiet_ticks + 1
                              ELSE quiet_ticks
            /\ IF completed >= total /\ total > 0
               THEN /\ is_downloading' = FALSE
                    /\ done_count' = done_count + 1
                    /\ progress_chains' = progress_chains - 1
               ELSE UNCHANGED << is_downloading, done_count, progress_chains >>
    /\ UNCHANGED << counters, registry, download_queue, dir_queue, session, file_list, gui,
                    scanst, env, wvars, svars, completion_checks_passed, chunkst, stop_count, stop_inflight,
                    list_failed, mtime_failed, nfault, nretry >>

\* _retry_selected_file on the tree item of file_path ("Retry Download")
RetrySelectedFile(file_path) ==
    /\ file_path \in file_to_item
    /\ nretry < MaxRetryOne
    /\ nretry' = nretry + 1
    /\ download_queue' = Append(download_queue, Task(file_path))
    /\ failed_downloads_dict' = DictDel(failed_downloads_dict, file_path)
    /\ UNCHANGED << counters, registry, dir_queue, session, file_list, file_to_item,
                    failed_downloads, scanst, is_downloading, env,
                    wvars, svars, progress_chains, completion_checks_passed, chunkst, done_count, quiet_ticks, stop_count, stop_inflight, list_failed, mtime_failed, nfault >>

\* errors without the records of the given paths
DropErrors(errs, paths) == SelectSeq(errs, LAMBDA e : e[1] \notin paths)

\* retry_failed_downloads ("Retry Failed")
RetryFailedDownloads ==
    /\ failed_downloads_dict # <<>>
    /\ ~is_downloading
    /\ LET retried == Range(failed_downloads_dict)
           retry_count == Len(failed_downloads_dict)
       IN  /\ failed_downloads' = failed_downloads \ retried
           /\ download_queue' =
                  AppendAll(download_queue,
                            [ i \in 1 .. retry_count |-> Task(failed_downloads_dict[i]) ])
           /\ file_to_item' = file_to_item \cup retried
           /\ downloaded_paths' = downloaded_paths \ retried
           /\ errors' = DropErrors(errors, retried)
           /\ failed' = IF failed - retry_count > 0 THEN failed - retry_count ELSE 0
    /\ failed_downloads_dict' = <<>>
    /\ UNCHANGED << total, completed, success, downloading_paths, dir_queue, session, file_list,
                    scanst, is_downloading, env, wvars, svars,
                    progress_chains, completion_checks_passed, chunkst, hist >>

\* StopDownload, but the stop also puts total back to zero
StopDownloadResetsTotal ==
    /\ is_downloading
    /\ is_downloading' = FALSE
    /\ w_running' = [w \in LiveWorkers |-> IF WSession(w) = session THEN FALSE
                                            ELSE w_running[w]]
    /\ download_queue' = download_queue \o Pills(NumWorkers)
    /\ stop_count' = stop_count + 1
    /\ stop_inflight' = downloading_paths
    /\ total' = 0
    /\ UNCHANGED << completed, success, failed, errors, registry, dir_queue, session, file_list, gui, scanst, env, w_pc,
                    w_task, w_status, svars, progress_chains, completion_checks_passed, chunkst, done_count, quiet_ticks,
                    list_failed, mtime_failed, nfault, nretry >>

\* stop_download: clear is_downloading, stop() every worker, put one pill
\* per worker, forget the workers
StopDownload ==
    /\ is_downloading
    /\ is_downloading' = FALSE
    /\ w_running' = [w \in LiveWorkers |-> IF WSession(w) = session THEN FALSE
                                            ELSE w_running[w]]
    /\ download_queue' = download_queue \o Pills(NumWorkers)
    /\ stop_count' = stop_count + 1
    /\ stop_inflight' = downloading_paths
    /\ UNCHANGED << counters, registry, dir_queue, session, file_list, gui, scanst, env, w_pc,
                    w_task, w_status, svars, progress_chains, completion_checks_passed, chunkst, done_count, quiet_ticks,
                    list_failed, mtime_failed, nfault, nretry >>

\* ------------------------------------------------------------------------
\* The system
\* ------------------------------------------------------------------------
Files == { <<"f1">>, <<"A", "f2">> }

\* Every worker thread has returned from run
AllWorkersExited == LiveWorkers # {} /\ \A w \in LiveWorkers : w_pc[w] = "exited"

\* Every scanner thread has returned
AllScannersExited == LiveScanners # {} /\ \A s \in LiveScanners : s_pc[s] = "exited"

\* The steps of a worker thread that connected, while no stop is requested
WorkerRun(w) ==
    \/ WorkerConnect(w)
    \/ WorkerGet(w)
    \/ WorkerClaim(w)
    \/ WorkerStream(w)
    \/ WorkerSucceed(w)
    \/ WorkerNotify(w)

\* The steps of a scanner thread whose connection and listings succeed
ScannerRun(s) ==
    \/ ScanConnect(s)
    \/ ScanGet(s, TRUE)
    \/ ScanTimeout(s)
    \/ ScanEmptyCheck(s)
    \/ ScanFinish(s)
    \/ ScanFileCheck(s)
    \/ ScanFilePut(s)
    \/ ScanFileTotal(s)

\* Discovery and transfer without failures, retries or stop
NextCore ==
    \/ StartDownload(1)
    \/ UpdateProgress
    \/ \E w \in LiveWorkers : WorkerRun(w)
    \/ \E s \in LiveScanners : ScannerRun(s)

\* Discovery and transfer with transfer errors, before any poll
NextTransfer ==
    \/ StartDownload(1)
    \/ \E w \in LiveWorkers : WorkerRun(w)
    \/ \E s \in LiveScanners : ScannerRun(s)
    \/ \E w \in LiveWorkers, e \in ErrIds : WorkerRaise(w, e)

\* ... with transfer errors
NextOutcomes ==
    \/ NextCore
    \/ \E w \in LiveWorkers, e \in ErrIds : WorkerRaise(w, e)

\* ... with transfer errors and the retry commands
NextSession ==
    \/ NextOutcomes
    \/ \E p \in Files : RetrySelectedFile(p)
    \/ RetryFailedDownloads

\* ... with transfer errors and "Retry Failed" (auto-retry sessions)
NextAuto ==
    \/ NextOutcomes
    \/ RetryFailedDownloads

\* The whole program
Next ==
    \/ NextSession
    \/ \E n \in Sessions \ { 1 } : StartDownload(n)
    \/ StopDownload
    \/ \E w \in LiveWorkers : WorkerTimeout(w)
    \/ \E w \in LiveWorkers : WorkerConnectFail(w)
    \/ \E w \in LiveWorkers : WorkerSucceedNoMtime(w)
    \/ \E s \in LiveScanners : ScanConnectFail(s)
    \/ \E s \in LiveScanners : ScanGet(s, FALSE)

\* A session with transfer errors that the user stops
NextStop ==
    \/ NextOutcomes
    \/ StopDownload

\* Discovery of one session with connection and listing failures (no worker
\* is scheduled)
NextDiscovery ==
    \/ StartDownload(1)
    \/ \E s \in LiveScanners : ScannerRun(s)
    \/ \E s \in LiveScanners : ScanConnectFail(s)
    \/ \E s \in LiveScanners : ScanGet(s, FALSE)

\* Discovery of one session in which every scanner connects and every
\* listing succeeds (no worker is scheduled)
NextScan ==
    \/ StartDownload(1)
    \/ \E s \in LiveScanners : ScannerRun(s)

\* Discovery of one session with listing failures (no worker is scheduled)
NextListing ==
    \/ StartDownload(1)
    \/ \E s \in LiveScanners : ScannerRun(s)
    \/ \E s \in LiveScanners : ScanGet(s, FALSE)

\* Discovery and transfer in which workers may fail to connect
NextPool ==
    \/ NextCore
    \/ \E w \in LiveWorkers : WorkerConnectFail(w)

\* Discovery and transfer with transfer errors that the user stops (no poll
\* is scheduled)
NextHalt ==
    \/ NextTransfer
    \/ StopDownload

\* Discovery of one session that the user stops (no worker is scheduled)
NextScanStop ==
    \/ NextScan
    \/ StopDownload

\* One session with transfer errors, the retry commands and the stop (no
\* poll is scheduled)
NextOps ==
    \/ NextHalt
    \/ \E p \in Files : RetrySelectedFile(p)
    \/ RetryFailedDownloads

\* A session with transfer errors that is polled to its end and, once its
\* threads have ended, started again
NextResume ==
    \/ NextOutcomes
    \/ AllWorkersExited /\ AllScannersExited /\ StartDownload(2)

\* Discovery and transfer with transfer errors and with modification times
\* that cannot be copied
NextMtime ==
    \/ NextTransfer
    \/ \E w \in LiveWorkers : WorkerSucceedNoMtime(w)

\* A session in which a scanner may fail to connect
NextScanFault ==
    \/ NextCore
    \/ \E s \in LiveScanners : ScanConnectFail(s)

\* The chunks of one transfer
NextStream == \E dt \in 0 .. MaxDelay : ReadChunk(dt)

\* Stop and start again while the scanners work (no worker is scheduled)
NextRestart ==
    \/ \E n \in Sessions : StartDownload(n)
    \/ StopDownload
    \/ \E s \in LiveScanners : ScannerRun(s)

InitManual == InitWith(SmallTree, {}, FALSE)
InitAuto == InitWith(SmallTree, {}, TRUE)
InitLocal == \E pre \in SUBSET { LocalPath(<<"A", "f2">>) } : InitWith(SmallTree, pre, FALSE)
InitScenario == InitWith(ScenarioTree, { LocalPath(<<"B", "b2">>) }, FALSE)
InitListing == InitWith(ScenarioTree, {}, FALSE)
InitRepeat == InitWith(RepeatTree, {}, FALSE)
\* The user leaves the remote path at "/" or enters the directory "/A"
InitBase == \E base \in { Root, << "A" >> } : InitAt(SmallTree, {}, FALSE, base)

Spec == Init /\ [][Next]_vars
SpecCore == InitLocal /\ [][NextCore]_vars
SpecTransfer == InitManual /\ [][NextTransfer]_vars
SpecSession == InitManual /\ [][NextSession]_vars
SpecAuto == InitAuto /\ [][NextAuto]_vars
SpecScenario == InitScenario /\ [][NextCore]_vars
SpecStop == InitManual /\ [][NextStop]_vars
SpecDiscovery == InitManual /\ [][NextDiscovery]_vars
\* Every scanner thread of the session keeps being scheduled
ScannersFair == \A s \in 1 .. NumScanners : WF_vars(s \in LiveScanners /\ ScannerRun(s))
SpecScanLive == InitManual /\ [][NextScan]_vars /\ WF_vars(StartDownload(1)) /\ ScannersFair
SpecListing == InitListing /\ [][NextListing]_vars
\* Every worker thread of the session keeps being scheduled
WorkersFair == \A w \in 0 .. (NumWorkers - 1) : WF_vars(w \in LiveWorkers /\ WorkerRun(w))
SpecPoolLive ==
    InitManual /\ [][NextPool]_vars /\ WF_vars(UpdateProgress) /\ WorkersFair /\ ScannersFair
SpecHaltLive == InitManual /\ [][NextHalt]_vars /\ WorkersFair
SpecScanStopLive == InitManual /\ [][NextScanStop]_vars /\ ScannersFair
SpecOps == InitManual /\ [][NextOps]_vars
SpecRestart == InitManual /\ [][NextRestart]_vars
SpecResume == InitManual /\ [][NextResume]_vars
SpecBase == InitBase /\ [][NextScan]_vars
SpecMtime == InitManual /\ [][NextMtime]_vars
\* A file of up to MaxChunks chunks, of known or unknown size, is opened
InitStream ==
    \E n \in 1 .. MaxChunks, known \in BOOLEAN :
        InitProgram(SmallTree, {}, FALSE, RemoteBase) /\ OpenedStream(n, known)
SpecStream == InitStream /\ [][NextStream]_vars
SpecScanFault == InitManual /\ [][NextScanFault]_vars
\* An auto-retry session in which every thread keeps being scheduled and the
\* polling goes on
SpecAutoLive == InitAuto /\ [][NextOutcomes]_vars /\ WF_vars(UpdateProgress) /\ WorkersFair /\ ScannersFair
SpecRepeat == InitRepeat /\ [][NextListing]_vars

\* A session without stop or retry in which the polling of update_progress
\* goes on: every root.after(500, self.update_progress) fires
SpecOutcomesLive == InitManual /\ [][NextOutcomes]_vars /\ WF_vars(UpdateProgress)

\* ------------------------------------------------------------------------
\* Properties
\* ------------------------------------------------------------------------
\* The tasks for path p that are live: in download_queue or held by a worker
QueuedTasks(p) == Cardinality({ i \in DOMAIN download_queue : download_queue[i] = Task(p) })
HeldTasks(p) == Cardinality({ w \in LiveWorkers : w_task[w] = Task(p) })
LiveTasks(p) == QueuedTasks(p) + HeldTasks(p)

C3_CompletedIsSum == completed = success + failed

\* C4: at every observation of the counters, completed <= total
C4_CompletedAtMostTotal == completed <= total

\* The tasks the scanners put for path p: each put appends p to file_list
DiscoveryPuts(p) == Cardinality({ i \in DOMAIN file_list : file_list[i] = p })

\* C5: scanners that meet the same remote file put one task for it between
\* them and add one to total for it
C5_OneTaskPerDiscoveredFile ==
    /\ \A p \in Files : DiscoveryPuts(p) <= 1
    /\ total <= Cardinality(Range(file_list))

\* C6: a completion is reported only after IsQuiet was found by at least
\* QuorumTicks polls in a row (followed by the final verification)
C6_DoneAfterQuorum == [][done_count' > done_count => quiet_ticks >= QuorumTicks]_vars

\* C7: whenever a completion is reported, at that moment the scan is
\* complete, download_queue is empty, nothing is downloading, total > 0 and
\* completed >= total
C7_DoneOnlyWhenQuiet == [][done_count' > done_count => IsQuiet]_vars

\* C8: when the pipeline is finished (IsQuiet) in a session without stop or
\* retry, the next poll reports the completion, and that poll comes
C8_FinishedReachesDone ==
    /\ [][(IsQuiet /\ is_downloading /\ UpdateProgress)
              => (~is_downloading' /\ done_count' = done_count + 1)]_vars
    /\ ((IsQuiet /\ is_downloading) ~> (~is_downloading /\ done_count >= 1))

\* The completion was reported by a poll that found the pipeline finished
C8_Witness == IsQuiet /\ ~is_downloading /\ done_count = 1 /\ quiet_ticks >= 1

\* The run is over: every directory was scanned, no scanner is inside a
\* directory, no task is queued or held
RunEnded ==
    /\ scanned_dirs = DOMAIN remote_fs
    /\ \A s \in LiveScanners : s_pc[s] \in { "loop", "empty", "finish", "exited" }
    /\ \A n \in Sessions : dir_queue[n] = <<>>
    /\ \A i \in DOMAIN download_queue : download_queue[i] = Pill
    /\ \A w \in LiveWorkers : w_task[w] = NoTask

\* C9: in the scenario (A with 3 files, B with 2 files of which one exists
\* locally, 2 scanners, 2 workers) a run that ended and was reported
\* complete has total = 5, success = 5 and failed = 0
C9_ScenarioTotals == (RunEnded /\ done_count >= 1) => (total = 5 /\ success = 5 /\ failed = 0)

\* C10: a transfer that raises an error classified as a disguised success
\* ("200 TYPE is now 8-bit binary") is recorded as a success: the path
\* moves from downloading_paths to downloaded_paths, success and completed
\* grow by one, failed is unchanged and no error is recorded
C10_DisguisedSuccess ==
    [][\A w \in LiveWorkers, e \in ErrIds :
           ((ErrText[e] = Msg200Type \/ Disguised(e)) /\ WorkerRaise(w, e))
               => /\ w_task[w][1] \in downloading_paths
                  /\ downloading_paths' = downloading_paths \ { w_task[w][1] }
                  /\ downloaded_paths' = downloaded_paths \cup { w_task[w][1] }
                  /\ success' = success + 1
                  /\ completed' = completed + 1
                  /\ failed' = failed
                  /\ errors' = errors]_vars

\* A worker reports "Completed" for a path it marked downloaded although the
\* transfer wrote no local file: the transfer raised and was taken as success
C10_Witness ==
    \E w \in LiveWorkers :
        /\ w_pc[w] = "notify"
        /\ w_status[w] = "Completed"
        /\ w_task[w][1] \in downloaded_paths
        /\ w_task[w][1] \notin downloading_paths
        /\ ~LocalExists(w_task[w][2])
        /\ success >= 1

\* The workers that are inside a transfer
Transferring == { w \in LiveWorkers : w_pc[w] \in { "transfer", "streaming" } }

\* C11: after a stop a path is in downloading_paths only while a worker is
\* still inside its transfer (it has not come back to `while self.running`),
\* and once every worker has terminated downloading_paths is empty
C11_DownloadingOnlyWhileHeld ==
    /\ \A p \in downloading_paths : \E w \in Transferring : w_task[w][1] = p
    /\ (\A w \in LiveWorkers : w_pc[w] = "exited") => downloading_paths = {}

\* A stop came while a transfer was in flight and a task was queued, every
\* worker has terminated since, and nothing is left in downloading_paths
C11_Witness ==
    /\ stop_count = 1
    /\ stop_inflight # {}
    /\ LiveWorkers # {}
    /\ \A w \in LiveWorkers : w_pc[w] = "exited"
    /\ \E i \in DOMAIN download_queue : download_queue[i] # Pill
    /\ downloading_paths = {}

\* The paths whose last transfer failed and that wait for a retry
FailedPaths == Range(failed_downloads_dict)

C13_RetryOneUndoesFailure ==
    [][\A p \in FailedPaths :
           RetrySelectedFile(p)
               => /\ failed' = failed - 1
                  /\ p \notin failed_downloads'
                  /\ errors' = DropErrors(errors, { p })
                  /\ UNCHANGED << total, success >>]_vars

C15_AutoRetryUndoesFailure ==
    [][\A w \in LiveWorkers :
           (/\ WorkerNotify(w)
            /\ w_status[w] = "Failed"
            /\ retry_failed_var
            /\ is_downloading)
               => LET p == w_task[w][1]
                  IN  /\ QueuedTasks(p)' = QueuedTasks(p) + 1
                      /\ failed' = failed - 1
                      /\ \A i \in DOMAIN errors' : errors'[i][1] # p
                      /\ p \notin downloaded_paths']_vars

\* The poison pills that wait on the download queue
PillsQueued == Cardinality({ i \in DOMAIN download_queue : download_queue[i] = Pill })

\* C16: in one session the scanners put NumWorkers poison pills in all, they
\* put them when scanner_done is set, and scanner_done is set once all the
\* scanners have left, whatever the order in which they connect, fail or exit
C16_PillsOncePerSession ==
    /\ PillsQueued \in { 0, NumWorkers }
    /\ scanner_done <=> PillsQueued = NumWorkers
    /\ (LiveScanners # {} /\ \A s \in LiveScanners : s_pc[s] = "exited") => scanner_done

\* The scanners that are inside _scan_and_queue_files_ftputil
Listing == { s \in LiveScanners : s_pc[s] \in { "files", "put", "total" } }

\* C17: scanner_done is true only while the directory queue of the session
\* is empty and no scanner is listing, and once it is true discovery puts no
\* further task, also when a scanner fails to connect or dies
C17_DoneOnlyAfterDiscovery ==
    [][/\ scanner_done' => (dir_queue'[session'] = <<>> /\ Listing' = {})
       /\ (scanner_done /\ scanner_done') => file_list' = file_list]_vars

\* Every scanner of the session has connected
AllConnected == LiveScanners # {} /\ \A s \in LiveScanners : s_pc[s] # "start"

\* Every scanner has left its loop, scanner_count is back at zero and
\* scanner_done is set
DiscoveryOver ==
    /\ \A s \in LiveScanners : s_pc[s] = "exited"
    /\ scanner_count = 0
    /\ scanner_done

\* C18: when all the scanners have connected to a finite tree, discovery
\* terminates: every scanner leaves its loop, scanner_count reaches zero and
\* scanner_done becomes true
C18_DiscoveryTerminates == AllConnected ~> DiscoveryOver

\* The directories whose listing failed
FailedDirs == { x[2] : x \in list_failed }

\* The files of directory d on the server
FilesOf(d) == Range(SelectKind(remote_fs[d], d, "file"))

\* Every file of every directory that was listed is on file_list (its task
\* was put) or is still ahead of the scanner that lists the directory
ListedFilesKept ==
    \A d \in scanned_dirs \ FailedDirs : \A p \in FilesOf(d) :
        \/ p \in Range(file_list)
        \/ \E s \in Listing : s_cur[s] = d /\ p \in Range(s_files[s])

\* C19: a listing failure costs the failed directory only: the scanner is
\* back at its loop with scanner_count unchanged, the other directories stay
\* on the directory queue, no task is lost, and every file of every listed
\* directory is still put on the download queue
C19_ListingFailureIsLocal ==
    [][/\ \A s \in LiveScanners :
              ScanGet(s, FALSE)
                  => /\ s_pc'[s] = "loop"
                     /\ scanner_count' = scanner_count
                     /\ dir_queue'[session] = Tail(dir_queue[session])
                     /\ download_queue' = download_queue
       /\ ListedFilesKept']_vars

\* The scanner whose listing of A failed has gone on to list B, and the two
\* files of B are queued while no file of A is
C19_Witness ==
    \E s \in LiveScanners :
        /\ << s, <<"A">> >> \in list_failed
        /\ s_cur[s] = <<"B">>
        /\ { <<"B", "b1">>, <<"B", "b2">> } \subseteq Range(file_list)
        /\ QueuedTasks(<<"B", "b1">>) = 1 /\ QueuedTasks(<<"B", "b2">>) = 1
        /\ \A p \in FilesOf(<<"A">>) : p \notin Range(file_list)

\* Worker w returned from run because its connection failed
ConnectFailed(w) ==
    /\ w_pc[w] = "exited"
    /\ \E i \in DOMAIN errors : errors[i] = << WorkerErrPrefix(w), 0 >>

\* Completion was reported, every file of the tree was transferred and no
\* task is queued or held
PoolDone ==
    /\ ~is_downloading /\ done_count >= 1
    /\ downloaded_paths = Files
    /\ completed = Cardinality(Files) /\ success = completed
    /\ \A p \in Files : LiveTasks(p) = 0

\* C20: a worker whose connection fails records exactly one error and returns
\* without taking anything from the download queue or touching a counter,
\* and the workers that are left transfer every task and the completion is
\* reported
C20_PoolToleratesConnectFailure ==
    /\ [][\A w \in LiveWorkers :
              WorkerConnectFail(w)
                  => /\ errors' = Append(errors, << WorkerErrPrefix(w), 0 >>)
                     /\ w_pc'[w] = "exited"
                     /\ download_queue' = download_queue
                     /\ UNCHANGED << total, completed, success, failed, w_task >>]_vars
    /\ ((\E w \in LiveWorkers : ConnectFailed(w)) ~> PoolDone)

\* One worker failed to connect, left its only error, and the other worker
\* transferred both files before the completion was reported
C20_Witness ==
    /\ \E w \in LiveWorkers : ConnectFailed(w) /\ errors = << << WorkerErrPrefix(w), 0 >> >>
    /\ PoolDone
    /\ total = Cardinality(Files)

\* C21: a worker that has seen self.running false is never back in
\* download_queue.get (it ends the task it holds at most), after a stop every
\* worker returns from run, and what is on the queue then stays there
C21_StoppedWorkersDrainNothing ==
    /\ [][\A w \in LiveWorkers :
              (~w_running[w] /\ w_pc[w] # "loop") => w_pc'[w] # "loop"]_vars
    /\ [][(stop_count >= 1 /\ AllWorkersExited)
              => SubSeq(download_queue', 1, Len(download_queue)) = download_queue]_vars
    /\ (stop_count >= 1 ~> AllWorkersExited)

\* The stop came during a transfer, which was then completed; every worker
\* has returned and a task is still on the queue
C21_Witness ==
    /\ stop_count = 1
    /\ stop_inflight # {} /\ stop_inflight \subseteq downloaded_paths
    /\ AllWorkersExited
    /\ \E p \in Files : QueuedTasks(p) >= 1 /\ p \notin downloaded_paths

\* C22: after a stop every scanner thread returns, and from then on nothing
\* is put on a directory queue or on the download queue and total stays
C22_StopEndsDiscovery ==
    /\ (stop_count >= 1 ~> AllScannersExited)
    /\ [][(stop_count >= 1 /\ AllScannersExited)
              => UNCHANGED << dir_queue, download_queue, total >>]_vars

\* The workers that hold path p between their claim and its outcome
Holders(p) == { w \in Transferring : w_task[w][1] = p }

C25_FailureIsLocal ==
    [][\A w \in LiveWorkers :
           /\ (\E e \in ErrIds : ~Disguised(e) /\ WorkerRaise(w, e))
                  => /\ w_pc'[w] = "notify"
                     /\ \A v \in LiveWorkers \ { w } : w_pc'[v] = w_pc[v]
                     /\ UNCHANGED << w_running, svars, scanst, download_queue, dir_queue,
                                     is_downloading, progress_chains >>
           /\ (w_pc[w] = "notify" /\ w_status[w] = "Failed" /\ WorkerNotify(w))
                  => /\ w_pc'[w] = "loop"
                     /\ UNCHANGED << w_running, svars, scanst, is_downloading,
                                     progress_chains >>]_vars

\* The only worker that has connected met a real error on f1 and is now
\* transferring f2, while the polling goes on
C25_Witness ==
    \E w, v \in LiveWorkers :
        /\ w # v /\ w_pc[v] = "connect"
        /\ failed = 1 /\ Len(errors) = 1 /\ errors[1][1] = <<"f1">>
        /\ w_pc[w] \in { "transfer", "streaming" } /\ w_task[w][1] = <<"A", "f2">>
        /\ is_downloading /\ progress_chains >= 1

\* C26: a poll that finds the pipeline not quiet leaves
\* completion_checks_passed at zero and goes on polling: it does not report
\* the completion
C26_UnquietTickResets ==
    [][(is_downloading /\ ~IsQuiet /\ UpdateProgress)
           => /\ completion_checks_passed' = 0
              /\ is_downloading'
              /\ done_count' = done_count]_vars

\* C27: within a session no step makes total smaller
C27_TotalNeverDecreases == [][session' = session => total' >= total]_vars

\* Both files were counted, one transfer succeeded and one failed, and the
\* session saw a retry and a stop
C27_Witness ==
    /\ session = 1 /\ total = Cardinality(Files)
    /\ success >= 1 /\ nfault = 1 /\ failed_downloads = {}
    /\ nretry >= 1 /\ stop_count = 1

\* The scanner s examines the next file of its listing in this step
Examines(s) == s_pc[s] = "files" /\ s_files[s] # <<>> /\ << s_pc[s], s_files[s] >>' # << s_pc[s], s_files[s] >>

\* The scanner s passes over the file without preparing a put
Skips(s) == s_pc'[s] = "files" /\ s_files'[s] = Tail(s_files[s]) /\ download_queue' = download_queue

\* C28: a scanner that examines a file already registered as downloaded or
\* downloading skips it without any enqueue; a scanner that examines an
\* unregistered file whose local destination exists with non-zero size
\* registers it as downloaded and skips it without any enqueue
C28_ScannerSkipsExisting ==
    [][\A s \in LiveScanners : Examines(s) =>
           LET remote_path == Head(s_files[s])
           IN  /\ remote_path \in downloaded_paths \cup downloading_paths => Skips(s)
               /\ (remote_path \notin downloaded_paths \cup downloading_paths
                     /\ LocalExists(LocalPath(remote_path)))
                    => (Skips(s) /\ remote_path \in downloaded_paths')]_vars

\* The path of the file p relative to the directory base that contains it
RelativeTo(base, p) == SubSeq(p, Len(base) + 1, Len(p))

\* C29: the local path of every queued task is the local root joined with
\* the remote path of the file relative to the configured remote base
C29_LocalPathStripsBase ==
    \A i \in 1 .. Len(download_queue) :
        LET task == download_queue[i]
        IN  task # Pill => task[2] = LocalDir \o RelativeTo(remote_base, task[1])

\* C30: when the stream of a task completed and the modification time could
\* not be read or set, the task ends as a success: its path is registered
\* as downloaded, success and completed grow by one, no failure and no error
\* is recorded and the reported status is "Completed"
C30_MtimeFailureIsNotFatal ==
    [][\A w \in LiveWorkers :
           (w_pc[w] = "streaming" /\ w_pc'[w] # "streaming" /\ mtime_failed' # mtime_failed)
               => /\ w_task[w][1] \in downloaded_paths'
                  /\ w_task[w][1] \notin downloading_paths'
                  /\ success' = success + 1 /\ completed' = completed + 1
                  /\ failed' = failed /\ errors' = errors
                  /\ w_status'[w] = "Completed"
                  /\ w_pc'[w] = "notify"]_vars

\* Both files are transferred without a failure although the modification
\* time of f1 could not be copied
C30_Witness ==
    /\ mtime_failed = { <<"f1">> }
    /\ success = Cardinality(Files) /\ failed = 0 /\ errors = <<>>
    /\ Files \subseteq downloaded_paths

\* C31: every chunk is added to bytes_downloaded, and the status callback
\* is invoked only when at least the update interval has gone by since its
\* last invocation (or since the start of the stream)
C31_StatusAtBoundedCadence ==
    [][downloaded' # downloaded =>
           /\ bytes_downloaded' = bytes_downloaded + (downloaded' - downloaded)
           /\ status_calls' # status_calls
                  => current_time' - last_status_time >= UpdateInterval]_vars

\* C32: the start of a session leaves nothing of the session before it: the
\* path sets and the list of queued files are empty and download_queue holds
\* no task and no pill
C32_SessionStartsClean ==
    [][session' # session =>
           /\ downloaded_paths' = {} /\ downloading_paths' = {}
           /\ file_list' = <<>>
           /\ download_queue' = <<>>]_vars

\* The scanner s dequeues the directory d in this step and asks the server
\* for it (chdir and listdir), with or without success
ListsDir(s, d) ==
    /\ s_pc[s] = "loop" /\ dir_queue[SSession(s)] # <<>> /\ Head(dir_queue[SSession(s)]) = d
    /\ s_cur'[s] = d /\ dir_queue'[SSession(s)] = Tail(dir_queue[SSession(s)])
    /\ s_pc'[s] = "files" \/ << s, d >> \in list_failed' \ list_failed

\* C33: in a session a directory is listed only while it is not in
\* scanned_dirs, the listing scanner puts it there in the same step and
\* scanned_dirs does not shrink, so no directory is listed twice
C33_DirListedOnce ==
    [][/\ \A s \in LiveScanners, d \in DOMAIN remote_fs :
              ListsDir(s, d) => d \notin scanned_dirs /\ d \in scanned_dirs'
       /\ session' = session => scanned_dirs \subseteq scanned_dirs']_vars

\* Both scanners dequeued the directory A: one of them lists it and the other
\* is back at the head of its loop
C33_Witness ==
    \E s, t \in LiveScanners :
        /\ s # t /\ s_cur[s] = <<"A">> /\ s_cur[t] = <<"A">>
        /\ s_pc[s] = "files" /\ s_files[s] # <<>>
        /\ s_pc[t] = "loop"
        /\ dir_queue[1] = <<>>

\* C34: a completion is reported once at a time and only by a poll that finds
\* is_downloading set and clears it, and is_downloading is set again only by
\* the start of a session: no session reports its completion twice
C34_DoneOncePerSession ==
    [][/\ done_count' # done_count
              => done_count' = done_count + 1 /\ is_downloading /\ ~is_downloading'
       /\ (~is_downloading /\ is_downloading') => session' = session + 1]_vars

\* The completion of the session was reported once and both polling chains
\* started by _start_parallel_downloads have ended
C34_Witness == session = 1 /\ done_count = 1 /\ progress_chains = 0 /\ ~is_downloading

\* A failure of p is on record and a task for p is on download_queue again
Readmitted(p) == QueuedTasks(p) >= 1 /\ \E i \in 1 .. Len(errors) : errors[i][1] = p

\* C35: a task that a retry put back on download_queue is taken from it by a
\* worker sooner or later
C35_ReadmittedTaskIsTaken == \A p \in Files : Readmitted(p) ~> (QueuedTasks(p) = 0)

\* The scanners of the session that connected and have not yet left
ActiveScanners == { s \in LiveScanners : SSession(s) = session /\ s_pc[s] \notin { "start", "exited" } }

\* C36: scanner_count is never negative and is the number of scanners that
\* connected and have not yet left
C36_ScannerCountIsExact == scanner_count >= 0 /\ scanner_count = Cardinality(ActiveScanners)

\* C37: when scanning is complete, download_queue is empty and nothing is
\* being downloaded, every file counted in total is counted in completed
C37_QuiescentMeansAllCounted ==
    (scanner_done /\ download_queue = <<>> /\ downloading_paths = {}) => completed = total

\* C38: when every worker has left through a pill, download_queue holds no
\* task (in these sessions every task on the queue was put by a scanner)
C38_NoTaskLeftBehind == AllWorkersExited => \A p \in Files : QueuedTasks(p) = 0

\* C39: a scanner whose dequeue timed out only leaves the loop or starts the
\* next iteration, both with dir_queue found empty: it does not go on to the
\* scan with a current_path it did not dequeue in this iteration
C39_TimeoutNeverScans ==
    [][\A s \in LiveScanners :
           (s_pc[s] = "empty" /\ s_pc'[s] # "empty")
               => /\ dir_queue[SSession(s)] = <<>>
                  /\ s_pc'[s] \in { "finish", "loop" }]_vars

==========================================================================
